---- MODULE Spec2Model ----
(***************************************************************************)
(* MavClient (src/app/mav_client.py): a client of the mavlink2rest relay.  *)
(* One asyncio task (open_websocket) keeps a websocket open and dispatches *)
(* its frames; the request handlers of the web server call ok, get_param,  *)
(* set_param and get_named_float on the same event loop.  Every method of  *)
(* the client is synchronous, so each call and each frame is one step; the *)
(* only suspension points are asyncio.sleep, ws_connect and ws.receive.    *)
(*                                                                         *)
(* Time is counted in tenths of a second.  The code reads the clock only   *)
(* in differences time.time() - t, so the origin of the clock is moved     *)
(* with the present: now is always 0 and a stored timestamp t is minus the *)
(* time elapsed since it was taken.  A timestamp older than the threshold  *)
(* it is compared with is kept at "threshold + 1 tenth" (the comparison    *)
(* cannot tell the difference).                                            *)
(***************************************************************************)
EXTENDS Integers, Sequences, FiniteSets, TLC

VARIABLES
    mav,          \* the MavClient object: a record of its fields
    pc,           \* where open_websocket is suspended: "sleep", "connect", "receive"
    sleep_start,  \* when the pending asyncio.sleep(1) began
    call,         \* the last public call: [op, arg, ret, raised]; NoCall after any
                  \* other step
    sent,         \* the messages POSTed to /mavlink by the last step, in order
    got,          \* the paths the last step requested with GET, in order
    cb,           \* the messages handed to the registered callback by the last step
    rx,           \* the websocket message the last step received, if it received one
    log,          \* what the last step logged
    hb_gap,       \* history: the last step was a target heartbeat that arrived more
                  \* than 2.0 s after the previous one, with no reset in between
    was_down,     \* history: no target heartbeat was received since the last Down
                  \* period began (construction, timeout detected, channel closed/lost)
    burst_misses, \* history: get_param calls since time last passed that missed the
                  \* cache and reached the throttle (a burst: at most MaxBurst)
    burst_sent,   \* history: the PARAM_REQUEST_READ messages those calls posted
    stale         \* history: the cache entries stored before the websocket was last
                  \* closed and not received again since

vars == <<mav, pc, sleep_start, call, sent, got, cb, rx, log, hb_gap, was_down,
          burst_misses, burst_sent, stale>>

----------------------------------------------------------------------------
(* Program constants *)

TARGET_SYSTEM == 1
TARGET_COMPONENT == 1
HEARTBEAT_TIMEOUT == 20     \* 2.0 s
BURST_WINDOW == 3           \* 0.3 s
BURST_LIMIT == 10
SLEEP_DELAY == 10           \* asyncio.sleep(1)
PAD_LEN == 16
MAV_DATA_STREAM_EXTENDED_STATUS == 2
MAVLINK_MSG_ID_RANGEFINDER == 173
MAVLINK_MSG_ID_GLOBAL_POSITION_INT == 33
DEFAULT_FREQUENCY == 4
DEFAULT_STREAM_FREQUENCY == 4
MSG_TIMEOUT == 10           \* the timeout SurftrakStatus gives get_msg: 1.0 s

(* Bounds of the model *)

TickStep == 10              \* the environment acts at instants TickStep tenths apart
TickUnit == 1               \* ... or, where the throttle is examined, one tenth apart
MaxBurst == 12              \* the longest burst of get_param misses at one instant
MaxPacedBurst == 2          \* read requests per burst window of a paced caller

now == 0

None == <<>>
Some(x) == <<x>>
Val(o) == o[1]

EmptyDict == <<>>
\* Put, were it to keep the value of a key that is present (dict.setdefault).
Put_keeps_present(d, k, v) ==
    [x \in (DOMAIN d) \cup {k} |-> IF x \in DOMAIN d THEN d[x] ELSE v]

Put(d, k, v) == [x \in (DOMAIN d) \cup {k} |-> IF x = k THEN v ELSE d[x]]

NUL == "\\x00"

----------------------------------------------------------------------------
(* Module-level helpers *)

\* chars_to_str, were it to keep the nulls.
chars_to_str_keeps_nulls(param_id_chars) == param_id_chars

RECURSIVE chars_to_str(_)
chars_to_str(param_id_chars) ==
    IF param_id_chars = <<>> THEN <<>>
    ELSE (IF Head(param_id_chars) # NUL THEN <<Head(param_id_chars)>> ELSE <<>>)
         \o chars_to_str(Tail(param_id_chars))

str_to_chars(param_id, pad_len) ==
    IF Len(param_id) < pad_len
    THEN param_id \o [i \in 1..(pad_len - Len(param_id)) |-> NUL]
    ELSE param_id

----------------------------------------------------------------------------
(* The remote: what mavlink2rest serves and how a request can end *)

HelperPath(msg_name) == <<"/helper/mavlink?name=", msg_name>>

MessagePath(msg_name, sys_id, comp_id) ==
    <<"/mavlink/vehicles/", sys_id, "/components/", comp_id, "/messages/", msg_name>>

\* The template mavlink2rest's helper serves for a message type.
RemoteTemplate(msg_name) ==
    LET header == [system_id |-> 255, component_id |-> 240, sequence |-> 0] IN
    CASE msg_name = "COMMAND_LONG" ->
           [header |-> header,
            message |-> [type |-> "COMMAND_LONG", target_system |-> 0,
                         target_component |-> 0,
                         command |-> [type |-> "MAV_CMD_NAV_WAYPOINT"],
                         param1 |-> 0, param2 |-> 0]]
      [] msg_name = "REQUEST_DATA_STREAM" ->
           [header |-> header,
            message |-> [type |-> "REQUEST_DATA_STREAM", target_system |-> 0,
                         target_component |-> 0, req_stream_id |-> 0,
                         req_message_rate |-> 0, start_stop |-> 0]]
      [] msg_name = "PARAM_REQUEST_READ" ->
           [header |-> header,
            message |-> [type |-> "PARAM_REQUEST_READ", target_system |-> 0,
                         target_component |-> 0, param_index |-> 0,
                         param_id |-> [i \in 1..PAD_LEN |-> NUL]]]
      [] msg_name = "PARAM_SET" ->
           [header |-> header,
            message |-> [type |-> "PARAM_SET", target_system |-> 0,
                         target_component |-> 0,
                         param_id |-> [i \in 1..PAD_LEN |-> NUL],
                         param_value |-> 0,
                         param_type |-> [type |-> "MAV_PARAM_TYPE_UINT8"]]]

RemoteDocument(path) == RemoteTemplate(path[2])

\* The ways requests.get / requests.post can end.
HttpResponses ==
    { [exception |-> TRUE,  status_code |-> 0,   text |-> "None"],
      [exception |-> FALSE, status_code |-> 500, text |-> "None"],
      [exception |-> FALSE, status_code |-> 200, text |-> "None"],
      [exception |-> FALSE, status_code |-> 200, text |-> "json"] }

\* The helper answers a known message name with its template or not at all.
HelperResponses == { r \in HttpResponses : r.status_code = 200 => r.text = "json" }

\* A date as mavlink2rest writes it: the instant it names and whether it is
\* written with nine digits of fraction ("...T12:00:00.123456789Z") or with
\* none ("...T12:00:00Z").
DateTime(at, fraction) == [at |-> at, fraction |-> fraction]

\* The record mavlink2rest keeps of a message, last updated age tenths ago.
RemoteRecord(age, fraction) ==
    [message |-> [type |-> "DISTANCE_SENSOR", current_distance |-> 150],
     status |-> [time |-> [last_update |-> DateTime(now - age, fraction)]]]

\* JSON that is no record: it lacks status.time.last_update.
BareRecord == [message |-> [type |-> "DISTANCE_SENSOR", current_distance |-> 150]]

RecordAges == { MSG_TIMEOUT, MSG_TIMEOUT + 1 }

\* The ways a request for a message record can end: as any request can, with
\* text that is not JSON, or with a JSON body.
RecordResponses ==
    { r \in HttpResponses : r.text # "json" }
    \cup { [exception |-> FALSE, status_code |-> 200, text |-> "not json"] }
    \cup { [exception |-> FALSE, status_code |-> 200, text |-> "json", body |-> b] :
             b \in { RemoteRecord(a, f) : a \in RecordAges, f \in {"nanoseconds"} }
                   \cup { RemoteRecord(MSG_TIMEOUT, "none"), BareRecord } }

\* Lines 17-22: [raised, value]; strptime raises ValueError on a date without
\* the fraction the format asks for.
m2r_datetime_to_epoch(datetime_str) ==
    [raised |-> datetime_str.fraction # "nanoseconds", value |-> datetime_str.at]

----------------------------------------------------------------------------
(* MavClient.  A method is an operator on a context c = [mav, sent, got,   *)
(* cb, log]: the object and the effects of the step so far.  A method that *)
(* returns a value yields [c, ret].                                        *)

MavClient ==
    [ websocket_is_open |-> FALSE,
      receiving_heartbeats |-> FALSE,
      last_heartbeat_time |-> None,
      msg_frequencies |-> <<>>,       \* dict, as its items in insertion order
      msg_callback |-> None,
      parameters |-> EmptyDict,
      param_request_burst_start |-> now,
      param_request_burst_count |-> 0,
      named_floats |-> EmptyDict,
      template_cache |-> EmptyDict ]

Logged(c, line) == [c EXCEPT !.log = Append(@, line)]

\* reset, were it to keep the parameters.
reset_keeps_parameters(c) ==
    [Logged(c, "ArduSub is down, clearing caches") EXCEPT
        !.mav.named_floats = EmptyDict,
        !.mav.template_cache = EmptyDict,
        !.mav.receiving_heartbeats = FALSE,
        !.mav.last_heartbeat_time = None]

\* reset, were it to start the burst count afresh as well.
reset_restarts_burst(c) ==
    [Logged(c, "ArduSub is down, clearing caches") EXCEPT
        !.mav.parameters = EmptyDict,
        !.mav.named_floats = EmptyDict,
        !.mav.template_cache = EmptyDict,
        !.mav.receiving_heartbeats = FALSE,
        !.mav.last_heartbeat_time = None,
        !.mav.param_request_burst_count = 0]

reset(c) ==
    [Logged(c, "ArduSub is down, clearing caches") EXCEPT
        !.mav.parameters = EmptyDict,
        !.mav.named_floats = EmptyDict,
        !.mav.template_cache = EmptyDict,
        !.mav.receiving_heartbeats = FALSE,
        !.mav.last_heartbeat_time = None]

\* json.loads(response.text): None when it raises, which line 108 catches.
json_loads(path, resp) ==
    IF resp.text = "not json" THEN None
    ELSE IF "body" \in DOMAIN resp THEN Some(resp.body)
    ELSE Some(RemoteDocument(path))

get_json(path, resp) ==
    IF resp.exception THEN None
    ELSE IF resp.status_code = 200
         THEN IF resp.text = "None" THEN None ELSE json_loads(path, resp)
         ELSE None

\* Every caller inside the client discards send_msg's result (lines 173, 186,
\* 212, 326) and the context it yields does not depend on the response, so
\* those callers are given one response.
Unobserved == [exception |-> FALSE, status_code |-> 200, text |-> "json"]

\* send_msg, were it to post again after a failure.
send_msg_retries(c, info, msg, resp) ==
    IF (~resp.exception) /\ resp.status_code = 200
    THEN [c |-> [c EXCEPT !.sent = Append(@, msg)], ret |-> TRUE]
    ELSE [c |-> [c EXCEPT !.sent = Append(Append(@, msg), msg)], ret |-> FALSE]

send_msg(c, info, msg, resp) ==
    [c |-> [c EXCEPT !.sent = Append(@, msg)],
     ret |-> (~resp.exception) /\ resp.status_code = 200]

\* The context after a method called requests.get(path).
Got(c, path) == [c EXCEPT !.got = Append(@, path)]

\* Line 123 raises KeyError when the record lacks status.time.last_update.
last_update_raises(msg) == "status" \notin DOMAIN msg

\* [c, ret, raised]: raised when an exception leaves the method.
get_msg(c, msg_name, sys_id, comp_id, timeout, resp) ==
    LET path == MessagePath(msg_name, sys_id, comp_id)
        msg == get_json(path, resp)
        c1 == Got(c, path)
    IN IF msg = None THEN [c |-> c1, ret |-> None, raised |-> FALSE]
       ELSE IF timeout # None
            THEN IF last_update_raises(Val(msg))
                 THEN [c |-> c1, ret |-> None, raised |-> TRUE]
                 ELSE LET last_update ==
                              m2r_datetime_to_epoch(Val(msg).status.time.last_update)
                      IN IF last_update.raised
                         THEN [c |-> c1, ret |-> None, raised |-> TRUE]
                         ELSE IF now - last_update.value > Val(timeout)
                              THEN [c |-> c1, ret |-> None, raised |-> FALSE]
                              ELSE [c |-> c1, ret |-> msg, raised |-> FALSE]
            ELSE [c |-> c1, ret |-> msg, raised |-> FALSE]

\* get_template, were it to return the cached object itself.
get_template_uncopied(c, msg_name, resp) ==
    IF msg_name \notin DOMAIN c.mav.template_cache
    THEN LET template == get_json(HelperPath(msg_name), resp)
             c1 == Got(c, HelperPath(msg_name))
         IN IF template = None
            THEN [c |-> c1, ret |-> None, shared |-> FALSE]
            ELSE [c |-> [c1 EXCEPT !.mav.template_cache = Put(@, msg_name, Val(template))],
                  ret |-> Some(Val(template)), shared |-> TRUE]
    ELSE [c |-> c, ret |-> Some(c.mav.template_cache[msg_name]), shared |-> TRUE]

\* get_template, were it to ask the helper on every call.
get_template_refetches(c, msg_name, resp) ==
    LET template == get_json(HelperPath(msg_name), resp)
        c1 == Got(c, HelperPath(msg_name))
    IN IF template = None
       THEN [c |-> c1, ret |-> None, shared |-> FALSE]
       ELSE [c |-> [c1 EXCEPT !.mav.template_cache = Put(@, msg_name, Val(template))],
             ret |-> Some(Val(template)), shared |-> FALSE]

\* [c, ret, shared]: shared tells whether the object returned is the cached
\* object itself; line 157 returns a copy.deepcopy of it.
get_template(c, msg_name, resp) ==
    IF msg_name \notin DOMAIN c.mav.template_cache
    THEN LET template == get_json(HelperPath(msg_name), resp)
             c1 == Got(c, HelperPath(msg_name))
         IN IF template = None
            THEN [c |-> c1, ret |-> None, shared |-> FALSE]
            ELSE [c |-> [c1 EXCEPT !.mav.template_cache = Put(@, msg_name, Val(template))],
                  ret |-> Some(Val(template)), shared |-> FALSE]
    ELSE [c |-> c, ret |-> Some(c.mav.template_cache[msg_name]), shared |-> FALSE]

\* The callers of get_template assign to the items of the object it returned
\* (msg['message'][...] = ...): msg is that object after the assignments,
\* and the cached object too when the two are one.
assigned(c, shared, msg_name, msg) ==
    IF shared THEN [c EXCEPT !.mav.template_cache = Put(@, msg_name, msg)] ELSE c

RECURSIVE send_intervals(_, _, _, _)
send_intervals(c, shared, msg, items) ==
    IF items = <<>> THEN c
    ELSE LET msg_id == Head(items)[1]
             frequency == Head(items)[2]
             m == [msg EXCEPT !.message.param1 = msg_id,
                              !.message.param2 = IF frequency > 0
                                                 THEN 1000000 \div frequency
                                                 ELSE -1]
         IN send_intervals(send_msg(assigned(c, shared, "COMMAND_LONG", m),
                                    <<"COMMAND_LONG", msg_id>>, m, Unobserved).c,
                           shared, m, Tail(items))

request_msg_frequencies(c, resp) ==
    LET t == get_template(c, "COMMAND_LONG", resp) IN
    IF t.ret # None
    THEN LET msg == [Val(t.ret) EXCEPT
                        !.message.target_system = TARGET_SYSTEM,
                        !.message.target_component = TARGET_COMPONENT,
                        !.message.command = [type |-> "MAV_CMD_SET_MESSAGE_INTERVAL"]]
         IN send_intervals(assigned(t.c, t.shared, "COMMAND_LONG", msg),
                           t.shared, msg, t.c.mav.msg_frequencies)
    ELSE t.c

request_data_stream(c, stream_id, frequency, resp) ==
    LET t == get_template(c, "REQUEST_DATA_STREAM", resp) IN
    IF t.ret # None
    THEN LET msg == [Val(t.ret) EXCEPT
                        !.message.target_system = TARGET_SYSTEM,
                        !.message.target_component = TARGET_COMPONENT,
                        !.message.req_stream_id = stream_id,
                        !.message.req_message_rate = frequency,
                        !.message.start_stop = 1]
         IN send_msg(assigned(t.c, t.shared, "REQUEST_DATA_STREAM", msg),
                     <<"REQUEST_DATA_STREAM", stream_id>>, msg, Unobserved).c
    ELSE t.c

\* burst_expired, were the window over at 0.3 s rather than after it.
burst_expired_at_limit(m) == now - m.param_request_burst_start >= BURST_WINDOW

\* Lines 197-201: the burst window is restarted by a miss that finds it expired.
burst_expired(m) == now - m.param_request_burst_start > BURST_WINDOW

\* throttled, were it to let one more request through.
throttled_late(m) == m.param_request_burst_count > BURST_LIMIT

\* Lines 203-205.
throttled(m) == m.param_request_burst_count >= BURST_LIMIT

request_param(c, param_id, resp) ==
    LET t == get_template(c, "PARAM_REQUEST_READ", resp) IN
    IF t.ret = None THEN t.c
    ELSE LET c1 == IF burst_expired(t.c.mav)
                   THEN [t.c EXCEPT !.mav.param_request_burst_start = now,
                                    !.mav.param_request_burst_count = 0]
                   ELSE t.c
         IN IF throttled(c1.mav) THEN c1
            ELSE LET msg == [Val(t.ret) EXCEPT
                                !.message.target_system = TARGET_SYSTEM,
                                !.message.target_component = TARGET_COMPONENT,
                                !.message.param_index = -1,
                                !.message.param_id = str_to_chars(param_id, PAD_LEN)]
                     c2 == send_msg(assigned(Logged(c1, "failed to get param"),
                                             t.shared, "PARAM_REQUEST_READ", msg),
                                    <<"PARAM_REQUEST_READ", param_id>>, msg, Unobserved).c
                 IN [c2 EXCEPT !.mav.param_request_burst_count = @ + 1]

\* heartbeat_timed_out, were the timeout reached at 2.0 s rather than after it.
heartbeat_timed_out_at_limit(m) ==
    m.last_heartbeat_time # None
    /\ now - Val(m.last_heartbeat_time) >= HEARTBEAT_TIMEOUT

\* Line 266: the test ok() makes before it resets.
heartbeat_timed_out(m) ==
    m.last_heartbeat_time # None
    /\ now - Val(m.last_heartbeat_time) > HEARTBEAT_TIMEOUT

ok(c) ==
    LET c1 == IF heartbeat_timed_out(c.mav)
              THEN reset(Logged(c, "HEARTBEAT time out"))
              ELSE c
    IN [c |-> c1, ret |-> c1.mav.websocket_is_open /\ c1.mav.receiving_heartbeats]

\* get_param, were it to ask the vehicle again for a value it holds.
get_param_refreshes(c, param_id, resp) ==
    LET o == ok(c) IN
    IF o.ret
    THEN IF param_id \in DOMAIN o.c.mav.parameters
         THEN [c |-> request_param(o.c, param_id, resp),
               ret |-> Some(o.c.mav.parameters[param_id])]
         ELSE [c |-> request_param(o.c, param_id, resp), ret |-> None]
    ELSE [c |-> o.c, ret |-> None]

get_param(c, param_id, resp) ==
    LET o == ok(c) IN
    IF o.ret
    THEN IF param_id \in DOMAIN o.c.mav.parameters
         THEN [c |-> o.c, ret |-> Some(o.c.mav.parameters[param_id])]
         ELSE [c |-> request_param(o.c, param_id, resp), ret |-> None]
    ELSE [c |-> o.c, ret |-> None]

\* set_param, were it to store the value it sends.
set_param_optimistic(c, param_id, param_value, resp) ==
    LET o == ok(c) IN
    IF o.ret
    THEN LET t == get_template(o.c, "PARAM_SET", resp) IN
         IF t.ret # None
         THEN LET msg == [Val(t.ret) EXCEPT
                             !.message.target_system = TARGET_SYSTEM,
                             !.message.target_component = TARGET_COMPONENT,
                             !.message.param_id = str_to_chars(param_id, PAD_LEN),
                             !.message.param_value = param_value,
                             !.message.param_type = [type |-> "MAV_PARAM_TYPE_REAL32"]]
                  c1 == send_msg(assigned(t.c, t.shared, "PARAM_SET", msg),
                                 <<"PARAM_SET", param_id, param_value>>, msg, Unobserved).c
              IN [c1 EXCEPT !.mav.parameters = Put(@, param_id, param_value)]
         ELSE t.c
    ELSE o.c

set_param(c, param_id, param_value, resp) ==
    LET o == ok(c) IN
    IF o.ret
    THEN LET t == get_template(o.c, "PARAM_SET", resp) IN
         IF t.ret # None
         THEN LET msg == [Val(t.ret) EXCEPT
                             !.message.target_system = TARGET_SYSTEM,
                             !.message.target_component = TARGET_COMPONENT,
                             !.message.param_id = str_to_chars(param_id, PAD_LEN),
                             !.message.param_value = param_value,
                             !.message.param_type = [type |-> "MAV_PARAM_TYPE_REAL32"]]
              IN send_msg(assigned(t.c, t.shared, "PARAM_SET", msg),
                          <<"PARAM_SET", param_id, param_value>>, msg, Unobserved).c
         ELSE t.c
    ELSE o.c

\* get_named_float, were it not to ask ok() first.
get_named_float_unchecked(c, name, resp) ==
    IF name \in DOMAIN c.mav.named_floats
    THEN [c |-> c, ret |-> Some(c.mav.named_floats[name])]
    ELSE [c |-> request_data_stream(c, MAV_DATA_STREAM_EXTENDED_STATUS,
                                    DEFAULT_STREAM_FREQUENCY, resp),
          ret |-> None]

get_named_float(c, name, resp) ==
    LET o == ok(c) IN
    IF o.ret
    THEN IF name \in DOMAIN o.c.mav.named_floats
         THEN [c |-> o.c, ret |-> Some(o.c.mav.named_floats[name])]
         ELSE [c |-> request_data_stream(o.c, MAV_DATA_STREAM_EXTENDED_STATUS,
                                         DEFAULT_STREAM_FREQUENCY, resp),
               ret |-> None]
    ELSE [c |-> o.c, ret |-> None]

set_msg_frequency(m, msg_id, frequency) ==
    IF \E i \in 1..Len(m.msg_frequencies) : m.msg_frequencies[i][1] = msg_id
    THEN [m EXCEPT !.msg_frequencies =
            [i \in 1..Len(@) |-> IF @[i][1] = msg_id THEN <<msg_id, frequency>> ELSE @[i]]]
    ELSE [m EXCEPT !.msg_frequencies = Append(@, <<msg_id, frequency>>)]

set_msg_callback(m, msg_callback) == [m EXCEPT !.msg_callback = Some(msg_callback)]

\* json.loads(ws_msg.data.strip()) fails on text that is not JSON.
json_loads_raises(ws_msg) == ~ws_msg.is_json

\* Lines 225-227 raise (KeyError, TypeError) when the document lacks
\* header.system_id, header.component_id or message.type.
lookup_raises(mav_msg) ==
    ~ ( "header" \in DOMAIN mav_msg /\ "message" \in DOMAIN mav_msg )

\* from_target, were it to compare the system id only.
from_target_system(sys_id, comp_id) == sys_id = TARGET_SYSTEM

\* Line 229: the message is from the target.
from_target(sys_id, comp_id) == sys_id = TARGET_SYSTEM /\ comp_id = TARGET_COMPONENT

\* _add_ws_text_msg, were it to call back for the target's messages only.
add_ws_text_msg_target_only(c, ws_msg, resp) ==
    IF json_loads_raises(ws_msg)
    THEN [c |-> Logged(c, "_add_ws_msg exception"), raised |-> FALSE]
    ELSE LET mav_msg == ws_msg.data IN
    IF lookup_raises(mav_msg) THEN [c |-> c, raised |-> TRUE]
    ELSE
    LET is_target == /\ mav_msg.header.system_id = TARGET_SYSTEM
                     /\ mav_msg.header.component_id = TARGET_COMPONENT
        msg_name == mav_msg.message.type
        c1 == IF is_target
              THEN CASE msg_name = "HEARTBEAT" ->
                          LET h == [c EXCEPT !.mav.last_heartbeat_time = Some(now)] IN
                          IF ~h.mav.receiving_heartbeats
                          THEN request_msg_frequencies(
                                   [Logged(h, "ArduSub is up") EXCEPT
                                       !.mav.receiving_heartbeats = TRUE],
                                   resp)
                          ELSE h
                     [] msg_name = "PARAM_VALUE" ->
                          [c EXCEPT !.mav.parameters =
                              Put(@, chars_to_str(mav_msg.message.param_id),
                                  mav_msg.message.param_value)]
                     [] msg_name = "NAMED_VALUE_FLOAT" ->
                          [c EXCEPT !.mav.named_floats =
                              Put(@, chars_to_str(mav_msg.message.name),
                                  mav_msg.message.value)]
                     [] OTHER -> c
              ELSE c
    IN [c |-> IF c1.mav.msg_callback # None /\ is_target
              THEN [c1 EXCEPT !.cb = Append(@, mav_msg)]
              ELSE c1,
        raised |-> FALSE]

\* [c, raised]: raised when an exception leaves the method.
add_ws_text_msg(c, ws_msg, resp) ==
    IF json_loads_raises(ws_msg)
    THEN [c |-> Logged(c, "_add_ws_msg exception"), raised |-> FALSE]
    ELSE LET mav_msg == ws_msg.data IN
    IF lookup_raises(mav_msg) THEN [c |-> c, raised |-> TRUE]
    ELSE
    LET sys_id == mav_msg.header.system_id
        comp_id == mav_msg.header.component_id
        msg_name == mav_msg.message.type
        c1 == IF from_target(sys_id, comp_id)
              THEN CASE msg_name = "HEARTBEAT" ->
                          LET h == [c EXCEPT !.mav.last_heartbeat_time = Some(now)] IN
                          IF ~h.mav.receiving_heartbeats
                          THEN request_msg_frequencies(
                                   [Logged(h, "ArduSub is up") EXCEPT
                                       !.mav.receiving_heartbeats = TRUE],
                                   resp)
                          ELSE h
                     [] msg_name = "PARAM_VALUE" ->
                          [c EXCEPT !.mav.parameters =
                              Put(@, chars_to_str(mav_msg.message.param_id),
                                  mav_msg.message.param_value)]
                     [] msg_name = "NAMED_VALUE_FLOAT" ->
                          [c EXCEPT !.mav.named_floats =
                              Put(@, chars_to_str(mav_msg.message.name),
                                  mav_msg.message.value)]
                     [] OTHER -> c
              ELSE c
    IN [c |-> IF c1.mav.msg_callback # None
              THEN [c1 EXCEPT !.cb = Append(@, mav_msg)]
              ELSE c1,
        raised |-> FALSE]

----------------------------------------------------------------------------
(* The environment: callers' arguments and the frames the websocket delivers *)

ParamNames == { <<"A">>, <<"B">> }       \* names get_param / set_param are called with
ReportedParams == { <<"A">> }            \* names the vehicle reports in PARAM_VALUE
ParamValues == { 1, 2 }
FloatNames == { <<"F">> }
FloatValues == { 5 }
NAME_LEN == 10                           \* NAMED_VALUE_FLOAT.name is char[10]
Target == <<TARGET_SYSTEM, TARGET_COMPONENT>>
OtherSources == { <<1, 194>>, <<255, 1>> }

Heartbeat == [type |-> "HEARTBEAT"]

ParamValue(n, v) ==
    [type |-> "PARAM_VALUE", param_id |-> str_to_chars(n, PAD_LEN), param_value |-> v]

Bodies ==
    { Heartbeat, [type |-> "RANGEFINDER", distance |-> 15] }
    \cup { [type |-> "PARAM_VALUE", param_id |-> str_to_chars(n, PAD_LEN),
            param_value |-> v] : n \in ReportedParams, v \in ParamValues }
    \cup { [type |-> "NAMED_VALUE_FLOAT", name |-> str_to_chars(n, NAME_LEN),
            value |-> v] : n \in FloatNames, v \in FloatValues }

\* Documents of the shape mavlink2rest sends.
MavMessage(s, b) == [header |-> [system_id |-> s[1], component_id |-> s[2]], message |-> b]

MavMessages ==
    { MavMessage(Target, b) : b \in Bodies }
    \cup { MavMessage(s, b) : s \in OtherSources, b \in {Heartbeat, ParamValue(<<"A">>, 2)} }

\* TEXT frames: a mavlink2rest document, JSON without a header, text that is no JSON.
Text(is_json, data) == [type |-> "TEXT", is_json |-> is_json, data |-> data]

Headerless == Text(TRUE, [message |-> Heartbeat])

TextMessages ==
    { Text(TRUE, d) : d \in MavMessages }
    \cup { Headerless, Text(FALSE, [text |-> "garbage"]) }

\* What the target itself sends, and JSON without a header.
TargetTraffic ==
    { Text(TRUE, MavMessage(Target, b)) :
        b \in Bodies \ { [type |-> "RANGEFINDER", distance |-> 15] } }
    \cup { Headerless }

ParamTraffic == { t \in TargetTraffic : t.data.message.type # "NAMED_VALUE_FLOAT" }

IsTargetHeartbeat(ws_msg) ==
    /\ ws_msg.is_json
    /\ ~lookup_raises(ws_msg.data)
    /\ ws_msg.data.header.system_id = TARGET_SYSTEM
    /\ ws_msg.data.header.component_id = TARGET_COMPONENT
    /\ ws_msg.data.message.type = "HEARTBEAT"

----------------------------------------------------------------------------
(* Steps *)

Ctx(m) == [mav |-> m, sent |-> <<>>, got |-> <<>>, cb |-> <<>>, log |-> <<>>]

NoCall == [op |-> "none", arg |-> <<>>, ret |-> <<>>, raised |-> FALSE]

\* The entries of the parameters and of the named floats.
CacheKeys(m) ==
    { <<"parameters", n>> : n \in DOMAIN m.parameters }
    \cup { <<"named_floats", n>> : n \in DOMAIN m.named_floats }

\* The entry a frame stores, lines 237-241.
ReceivedKeys(ws_msg) ==
    IF /\ ws_msg.is_json
       /\ ~lookup_raises(ws_msg.data)
       /\ from_target(ws_msg.data.header.system_id, ws_msg.data.header.component_id)
    THEN CASE ws_msg.data.message.type = "PARAM_VALUE" ->
                { <<"parameters", chars_to_str(ws_msg.data.message.param_id)>> }
           [] ws_msg.data.message.type = "NAMED_VALUE_FLOAT" ->
                { <<"named_floats", chars_to_str(ws_msg.data.message.name)>> }
           [] OTHER -> {}
    ELSE {}

\* A timestamp t after d more tenths, kept at -cap once it is that old.
Elapse(t, d, cap) == IF now - (t - d) > cap THEN now - cap ELSE t - d

Init ==
    /\ mav = MavClient
    /\ pc = "sleep"
    /\ sleep_start = now
    /\ call = NoCall
    /\ sent = <<>>
    /\ got = <<>>
    /\ cb = <<>>
    /\ rx = None
    /\ log = <<>>
    /\ hb_gap = FALSE
    /\ was_down = TRUE
    /\ burst_misses = 0
    /\ burst_sent = 0
    /\ stale = {}

\* A step of the supervisor or of time: no public call, nothing posted, nobody
\* called back.
Quiet(received, lines) ==
    /\ call' = NoCall
    /\ sent' = <<>>
    /\ got' = <<>>
    /\ cb' = <<>>
    /\ rx' = received
    /\ log' = lines
    /\ hb_gap' = FALSE

\* The effects of a public call that ran in context c and returned ret, or
\* raised.
Returned(c, op, arg, ret, raised) ==
    /\ mav' = c.mav
    /\ sent' = c.sent
    /\ got' = c.got
    /\ cb' = c.cb
    /\ log' = c.log
    /\ rx' = None
    /\ call' = [op |-> op, arg |-> arg, ret |-> ret, raised |-> raised]
    /\ was_down' = (was_down \/ heartbeat_timed_out(mav))
    /\ hb_gap' = FALSE
    /\ stale' = stale \cap CacheKeys(c.mav)
    /\ UNCHANGED <<pc, sleep_start>>

\* The effects of a public call that ran in context c.
Called(c, op, arg, ret) ==
    /\ mav' = c.mav
    /\ sent' = c.sent
    /\ got' = c.got
    /\ cb' = c.cb
    /\ log' = c.log
    /\ rx' = None
    /\ call' = [op |-> op, arg |-> arg, ret |-> ret, raised |-> FALSE]
    /\ was_down' = (was_down \/ heartbeat_timed_out(mav))
    /\ hb_gap' = FALSE
    /\ stale' = stale \cap CacheKeys(c.mav)
    /\ UNCHANGED <<pc, sleep_start>>

\* Tick, were a timer task watching the heartbeat.
Tick_detects_timeout(d) ==
    /\ LET aged == [mav EXCEPT
                      !.last_heartbeat_time =
                          IF @ = None THEN None
                          ELSE Some(Elapse(Val(@), d, HEARTBEAT_TIMEOUT + 1)),
                      !.param_request_burst_start = Elapse(@, d, BURST_WINDOW + 1)]
       IN mav' = IF heartbeat_timed_out(aged) THEN reset(Ctx(aged)).mav ELSE aged
    /\ sleep_start' = IF pc = "sleep" THEN Elapse(sleep_start, d, SLEEP_DELAY)
                      ELSE sleep_start
    /\ Quiet(None, <<>>)
    /\ burst_misses' = 0
    /\ burst_sent' = 0
    /\ UNCHANGED <<pc, was_down, stale>>

\* Time passes.
Tick(d) ==
    /\ mav' = [mav EXCEPT
                 !.last_heartbeat_time =
                     IF @ = None THEN None
                     ELSE Some(Elapse(Val(@), d, HEARTBEAT_TIMEOUT + 1)),
                 !.param_request_burst_start = Elapse(@, d, BURST_WINDOW + 1)]
    /\ sleep_start' = IF pc = "sleep" THEN Elapse(sleep_start, d, SLEEP_DELAY)
                      ELSE sleep_start
    /\ Quiet(None, <<>>)
    /\ burst_misses' = 0
    /\ burst_sent' = 0
    /\ UNCHANGED <<pc, was_down, stale>>

TickStepPasses == Tick(TickStep)

TickUnitPasses == Tick(TickUnit)

\* open_websocket, lines 278-281: asyncio.sleep(1) returns, ws_connect begins.
WakeUp ==
    /\ pc = "sleep"
    /\ now - sleep_start >= SLEEP_DELAY
    /\ pc' = "connect"
    /\ sleep_start' = now
    /\ Quiet(None, <<>>)
    /\ UNCHANGED <<mav, was_down, burst_misses, burst_sent, stale>>

\* Lines 281-284: ws_connect succeeds.
ConnectOk ==
    /\ pc = "connect"
    /\ mav' = [mav EXCEPT !.websocket_is_open = TRUE]
    /\ pc' = "receive"
    /\ Quiet(None, <<"ws opened">>)
    /\ UNCHANGED <<sleep_start, was_down, burst_misses, burst_sent, stale>>

\* ConnectFail, were the exception to end the loop.
ConnectFail_gives_up ==
    /\ pc = "connect"
    /\ mav' = [mav EXCEPT !.websocket_is_open = FALSE]
    /\ pc' = "done"
    /\ sleep_start' = now
    /\ Quiet(None, <<"ws open exception">>)
    /\ UNCHANGED <<was_down, burst_misses, burst_sent, stale>>

\* Lines 281, 286-288, 278: ws_connect raises.
ConnectFail ==
    /\ pc = "connect"
    /\ mav' = [mav EXCEPT !.websocket_is_open = FALSE]
    /\ pc' = "sleep"
    /\ sleep_start' = now
    /\ Quiet(None, <<"ws open exception">>)
    /\ UNCHANGED <<was_down, burst_misses, burst_sent, stale>>

\* _ws_dispatch, lines 251-254: a TEXT frame; open_websocket, lines 286-288
\* and 278, when handling it raises.
RecvText(ws_msg, resp) ==
    /\ pc = "receive"
    /\ LET r == add_ws_text_msg(Ctx(mav), ws_msg, resp) IN
       /\ mav' = IF r.raised THEN [r.c.mav EXCEPT !.websocket_is_open = FALSE]
                 ELSE r.c.mav
       /\ pc' = IF r.raised THEN "sleep" ELSE "receive"
       /\ sent' = r.c.sent
       /\ got' = r.c.got
       /\ cb' = r.c.cb
       /\ log' = IF r.raised THEN Append(r.c.log, "ws open exception") ELSE r.c.log
       /\ was_down' = IF r.raised THEN TRUE
                      ELSE IF IsTargetHeartbeat(ws_msg) THEN FALSE
                      ELSE was_down
       /\ stale' = IF r.raised THEN CacheKeys(r.c.mav)
                   ELSE (stale \ ReceivedKeys(ws_msg)) \cap CacheKeys(r.c.mav)
    /\ rx' = Some(ws_msg)
    /\ hb_gap' = (IsTargetHeartbeat(ws_msg) /\ heartbeat_timed_out(mav))
    /\ call' = NoCall
    /\ UNCHANGED <<sleep_start, burst_misses, burst_sent>>

\* EndDispatch, were line 288 missing.
EndDispatch_leaves_open(ws_msg, line) ==
    /\ pc = "receive"
    /\ LET c == reset(Logged(Ctx(mav), line)) IN
       /\ mav' = c.mav
       /\ Quiet(Some(ws_msg), c.log)
       /\ stale' = CacheKeys(c.mav)
    /\ pc' = "sleep"
    /\ sleep_start' = now
    /\ was_down' = TRUE
    /\ UNCHANGED <<burst_misses, burst_sent>>

\* The dispatch loop ends (break), then open_websocket lines 285, 288, 278.
EndDispatch(ws_msg, line) ==
    /\ pc = "receive"
    /\ LET c == reset(Logged(Ctx(mav), line)) IN
       /\ mav' = [c.mav EXCEPT !.websocket_is_open = FALSE]
       /\ Quiet(Some(ws_msg), c.log)
       /\ stale' = CacheKeys(c.mav)
    /\ pc' = "sleep"
    /\ sleep_start' = now
    /\ was_down' = TRUE
    /\ UNCHANGED <<burst_misses, burst_sent>>

\* _ws_dispatch, lines 255-257: an ERROR frame.
RecvError == EndDispatch([type |-> "ERROR"], "ws exception during receive")

\* Lines 258-260: a CLOSED frame.
RecvClosed == EndDispatch([type |-> "CLOSED"], "ws closed by remote")

\* Lines 261-262: a frame of any other type is logged.
RecvUnexpected ==
    /\ pc = "receive"
    /\ Quiet(Some([type |-> "BINARY"]), <<"ws unexpected message type">>)
    /\ UNCHANGED <<mav, pc, sleep_start, was_down, burst_misses, burst_sent, stale>>

\* A caller evaluates ok().
Ok ==
    /\ LET o == ok(Ctx(mav)) IN Called(o.c, "ok", <<>>, <<o.ret>>)
    /\ UNCHANGED <<burst_misses, burst_sent>>

\* Whether get_param(param_id) would reach the throttle of _request_param.
reaches_throttle(m, param_id, resp) ==
    LET o == ok(Ctx(m)) IN
    /\ o.ret
    /\ param_id \notin DOMAIN o.c.mav.parameters
    /\ get_template(o.c, "PARAM_REQUEST_READ", resp).ret # None

GetParam(param_id, resp) ==
    /\ reaches_throttle(mav, param_id, resp) => burst_misses < MaxBurst
    /\ LET g == get_param(Ctx(mav), param_id, resp) IN
       /\ Called(g.c, "get_param", <<param_id>>, g.ret)
       /\ IF reaches_throttle(mav, param_id, resp)
          THEN /\ burst_misses' = burst_misses + 1
               /\ burst_sent' = burst_sent + Len(g.c.sent)
          ELSE UNCHANGED <<burst_misses, burst_sent>>

SetParam(param_id, param_value, resp) ==
    /\ Called(set_param(Ctx(mav), param_id, param_value, resp),
              "set_param", <<param_id, param_value>>, None)
    /\ UNCHANGED <<burst_misses, burst_sent>>

GetNamedFloat(name, resp) ==
    /\ LET g == get_named_float(Ctx(mav), name, resp) IN
       Called(g.c, "get_named_float", <<name>>, g.ret)
    /\ UNCHANGED <<burst_misses, burst_sent>>

\* Whether get_param(param_id) would reach _request_param.
would_request(m, param_id) ==
    LET o == ok(Ctx(m)) IN o.ret /\ param_id \notin DOMAIN o.c.mav.parameters

\* get_param by a caller that asks for at most MaxPacedBurst missing parameters
\* per burst window.
GetParamPaced(param_id, resp) ==
    /\ would_request(mav, param_id) =>
          (burst_expired(mav) \/ mav.param_request_burst_count < MaxPacedBurst)
    /\ GetParam(param_id, resp)

\* SurftrakStatus.__init__ (surftrak_status.py, lines 71-73), run once by main.
SurftrakStatusInit ==
    /\ mav.msg_callback = None
    /\ mav' = set_msg_frequency(
                 set_msg_frequency(
                     set_msg_callback(mav, "msg_callback"),
                     MAVLINK_MSG_ID_RANGEFINDER, DEFAULT_FREQUENCY),
                 MAVLINK_MSG_ID_GLOBAL_POSITION_INT, DEFAULT_FREQUENCY)
    /\ Quiet(None, <<>>)
    /\ UNCHANGED <<pc, sleep_start, was_down, burst_misses, burst_sent, stale>>

\* The supervisor's own steps and the passage of time.
Lifecycle ==
    \/ TickStepPasses
    \/ WakeUp
    \/ ConnectOk
    \/ ConnectFail
    \/ RecvError
    \/ RecvClosed
    \/ RecvUnexpected

\* The connection, the dispatcher and state(): any frame, ok() and the
\* registrations main makes.
Next ==
    \/ Lifecycle
    \/ \E ws_msg \in TextMessages, resp \in HelperResponses : RecvText(ws_msg, resp)
    \/ Ok
    \/ SurftrakStatusInit

Spec == Init /\ [][Next]_vars

\* The read side: the target's traffic, ok(), get_param by a paced caller and
\* get_named_float.
QueryNext ==
    \/ Lifecycle
    \/ \E ws_msg \in TargetTraffic, resp \in HelperResponses : RecvText(ws_msg, resp)
    \/ Ok
    \/ \E param_id \in ParamNames, resp \in HelperResponses : GetParamPaced(param_id, resp)
    \/ \E name \in FloatNames, resp \in HelperResponses : GetNamedFloat(name, resp)

QuerySpec == Init /\ [][QueryNext]_vars

\* The write side: the target's heartbeats and parameter values, set_param and
\* get_param by a paced caller.
SetNext ==
    \/ Lifecycle
    \/ \E ws_msg \in ParamTraffic, resp \in HelperResponses : RecvText(ws_msg, resp)
    \/ \E param_id \in ParamNames, v \in ParamValues, resp \in HelperResponses :
          SetParam(param_id, v, resp)
    \/ \E param_id \in ParamNames, resp \in HelperResponses : GetParamPaced(param_id, resp)

SetSpec == Init /\ [][SetNext]_vars

\* A caller asks for a template.
GetTemplate(msg_name, resp) ==
    /\ LET t == get_template(Ctx(mav), msg_name, resp) IN
       Called(t.c, "get_template", <<msg_name, resp>>, t.ret)
    /\ UNCHANGED <<burst_misses, burst_sent>>

\* A caller asks for the record of a message, as SurftrakStatus does
\* (surftrak_status.py, line 121).
GetMsg(msg_name, sys_id, comp_id, timeout, resp) ==
    /\ LET g == get_msg(Ctx(mav), msg_name, sys_id, comp_id, timeout, resp) IN
       Returned(g.c, "get_msg", <<msg_name, sys_id, comp_id, timeout, resp>>,
                g.ret, g.raised)
    /\ UNCHANGED <<burst_misses, burst_sent>>

\* A caller posts a message.
SendMsg(info, msg, resp) ==
    /\ LET r == send_msg(Ctx(mav), info, msg, resp) IN
       Called(r.c, "send_msg", <<info, msg, resp>>, <<r.ret>>)
    /\ UNCHANGED <<burst_misses, burst_sent>>

TemplateNames == { "PARAM_SET", "COMMAND_LONG" }

\* The REST side: the supervisor, the registrations main makes, the target's
\* heartbeats and one parameter value, ok(), and callers of get_template,
\* get_msg and send_msg.
RestNext ==
    \/ Lifecycle
    \/ SurftrakStatusInit
    \/ \E resp \in HelperResponses : RecvText(Text(TRUE, MavMessage(Target, Heartbeat)), resp)
    \/ RecvText(Text(TRUE, MavMessage(Target, ParamValue(<<"A">>, 1))), Unobserved)
    \/ Ok
    \/ \E msg_name \in TemplateNames, resp \in HttpResponses : GetTemplate(msg_name, resp)
    \/ \E timeout \in {None, Some(MSG_TIMEOUT)}, resp \in RecordResponses :
          GetMsg("DISTANCE_SENSOR", TARGET_SYSTEM, TARGET_COMPONENT, timeout, resp)
    \/ \E resp \in HttpResponses :
          SendMsg(<<"PARAM_SET">>, RemoteTemplate("PARAM_SET"), resp)

RestSpec == Init /\ [][RestNext]_vars

\* The supervisor under the scheduling asyncio gives it: time passes, and a
\* sleep that is over returns.
FairSpec ==
    /\ Spec
    /\ WF_vars(TickStepPasses)
    /\ WF_vars(WakeUp)

\* The k-th name of a caller's list of distinct parameter names.
Letters == <<"a", "b", "c", "d", "e", "f", "g", "h", "i", "j", "k", "l", "m", "n", "o">>

BurstName(k) == <<"P", Letters[k]>>

\* A caller that walks its list: each miss of a burst asks for the next name.
\* The first name of the list is left to RepeatCall.
GetParamNext(resp) == GetParam(BurstName(burst_misses + 2), resp)

\* A caller asking again for a parameter the vehicle has reported.
RepeatCall(resp) ==
    /\ BurstName(1) \in DOMAIN mav.parameters
    /\ GetParam(BurstName(1), resp)

Reported == Text(TRUE, MavMessage(Target, ParamValue(BurstName(1), 1)))

\* The throttle: time in single tenths, the target's heartbeats and one
\* parameter value, and callers reading parameters by name.
ThrottleNext ==
    \/ TickUnitPasses
    \/ WakeUp
    \/ ConnectOk
    \/ \E resp \in HelperResponses : RecvText(Text(TRUE, MavMessage(Target, Heartbeat)), resp)
    \/ RecvText(Reported, Unobserved)
    \/ \E resp \in HelperResponses : GetParamNext(resp)
    \/ \E resp \in HelperResponses : RepeatCall(resp)

ThrottleSpec == Init /\ [][ThrottleNext]_vars

\* The names given to the codec: every length from 1 to the padded length, all
\* "A" but for at most one place, which holds "B" or a null.
CodecNames ==
    { [i \in 1..n |-> "A"] : n \in 1..PAD_LEN }
    \cup { [i \in 1..n |-> IF i = k THEN x ELSE "A"] :
               n \in 1..PAD_LEN, k \in 1..PAD_LEN, x \in {"B", NUL} }

\* A name is encoded as set_param does (line 323) and decoded as the handler
\* of PARAM_VALUE does (line 238).
RoundTrip(name) ==
    /\ LET chars == str_to_chars(name, PAD_LEN) IN
       Called(Ctx(mav), "round_trip", <<name>>, <<chars, chars_to_str(chars)>>)
    /\ UNCHANGED <<burst_misses, burst_sent>>

CodecNext == \E name \in CodecNames : RoundTrip(name)

CodecSpec == Init /\ [][CodecNext]_vars

\* The timeout requests.get (line 98) and requests.post (line 134) are called
\* with: none.
REQUEST_TIMEOUT == None

\* Whether a call of requests.get / requests.post comes back, with a response
\* or an exception: it does when the remote answers or the connection fails,
\* and otherwise only when a timeout was given.
transport_returns(timeout, answered) == answered \/ timeout # None

\* A target heartbeat arrives while none was being received: the handler runs
\* lines 231-234, _request_msg_frequencies asks for the COMMAND_LONG template
\* (lines 164, 149, 98) and mavlink2rest never answers.  The handler runs on
\* the event loop's thread, which stays inside requests.get.
RecvHeartbeatUnanswered ==
    /\ pc = "receive"
    /\ ~mav.receiving_heartbeats
    /\ "COMMAND_LONG" \notin DOMAIN mav.template_cache
    /\ ~transport_returns(REQUEST_TIMEOUT, FALSE)
    /\ mav' = [mav EXCEPT !.last_heartbeat_time = Some(now),
                          !.receiving_heartbeats = TRUE]
    /\ pc' = "blocked"
    /\ rx' = Some(Text(TRUE, MavMessage(Target, Heartbeat)))
    /\ got' = <<HelperPath("COMMAND_LONG")>>
    /\ sent' = <<>>
    /\ cb' = <<>>
    /\ log' = <<>>
    /\ call' = NoCall
    /\ hb_gap' = heartbeat_timed_out(mav)
    /\ was_down' = FALSE
    /\ UNCHANGED <<sleep_start, burst_misses, burst_sent, stale>>

\* get_param misses, _request_param asks for the PARAM_REQUEST_READ template
\* (lines 192, 149, 98) and mavlink2rest never answers.  main's handlers are
\* coroutines of the same event loop (main.py, lines 28-35), so its thread stays
\* inside requests.get.
GetParamUnanswered(param_id) ==
    /\ pc # "blocked"
    /\ would_request(mav, param_id)
    /\ LET o == ok(Ctx(mav)) IN
       /\ "PARAM_REQUEST_READ" \notin DOMAIN o.c.mav.template_cache
       /\ mav' = o.c.mav
       /\ log' = o.c.log
       /\ stale' = stale \cap CacheKeys(o.c.mav)
    /\ ~transport_returns(REQUEST_TIMEOUT, FALSE)
    /\ pc' = "blocked"
    /\ rx' = None
    /\ got' = <<HelperPath("PARAM_REQUEST_READ")>>
    /\ sent' = <<>>
    /\ cb' = <<>>
    /\ call' = NoCall
    /\ hb_gap' = FALSE
    /\ was_down' = (was_down \/ heartbeat_timed_out(mav))
    /\ UNCHANGED <<sleep_start, burst_misses, burst_sent>>

\* A caller posts a message (line 134) and mavlink2rest never answers.
SendMsgUnanswered(msg) ==
    /\ pc # "blocked"
    /\ ~transport_returns(REQUEST_TIMEOUT, FALSE)
    /\ pc' = "blocked"
    /\ rx' = None
    /\ got' = <<>>
    /\ sent' = <<msg>>
    /\ cb' = <<>>
    /\ log' = <<>>
    /\ call' = NoCall
    /\ hb_gap' = FALSE
    /\ UNCHANGED <<mav, sleep_start, was_down, burst_misses, burst_sent, stale>>

\* The event loop's thread is free to run the step.
OnEventLoop(step) == pc # "blocked" /\ step

\* The client with a mavlink2rest that answers a request, fails it or stays
\* silent: time passes whatever happens, and every handler waits for the event
\* loop's thread.
TransportNext ==
    \/ TickStepPasses
    \/ OnEventLoop(WakeUp)
    \/ OnEventLoop(ConnectOk)
    \/ OnEventLoop(ConnectFail)
    \/ OnEventLoop(RecvClosed)
    \/ OnEventLoop(SurftrakStatusInit)
    \/ \E resp \in HelperResponses :
          OnEventLoop(RecvText(Text(TRUE, MavMessage(Target, Heartbeat)), resp))
    \/ OnEventLoop(Ok)
    \/ \E param_id \in ParamNames, resp \in HelperResponses :
          OnEventLoop(GetParamPaced(param_id, resp))
    \/ RecvHeartbeatUnanswered
    \/ \E param_id \in ParamNames : GetParamUnanswered(param_id)
    \/ SendMsgUnanswered(RemoteTemplate("PARAM_SET"))

\* The scheduling of FairSpec: time passes, and a sleep that is over returns
\* once the event loop's thread is free.
TransportSpec ==
    /\ Init
    /\ [][TransportNext]_vars
    /\ WF_vars(TickStepPasses)
    /\ WF_vars(OnEventLoop(WakeUp))

----------------------------------------------------------------------------
(* Properties *)

Logs(line) == \E i \in 1..Len(log) : log[i] = line

Min(a, b) == IF a < b THEN a ELSE b

\* What ok() would return now.
Up == ok(Ctx(mav)).ret

\* The cached value of a parameter as get_param would find it now, if any.
Cached(param_id) ==
    LET o == ok(Ctx(mav)) IN
    IF o.ret /\ param_id \in DOMAIN o.c.mav.parameters
    THEN Some(o.c.mav.parameters[param_id])
    ELSE None

CachesCleared(m) ==
    /\ m.parameters = EmptyDict
    /\ m.named_floats = EmptyDict
    /\ m.template_cache = EmptyDict
    /\ ~m.receiving_heartbeats

\* C1, as the specification states it: ok() returns True exactly when the
\* websocket is open and the last heartbeat of the target is less than 2.0 s old.
C1_UpIffYoungerThanTimeout ==
    [][call'.op = "ok" =>
          (Val(call'.ret) <=>
              /\ mav.websocket_is_open
              /\ mav.last_heartbeat_time # None
              /\ now - Val(mav.last_heartbeat_time) < HEARTBEAT_TIMEOUT)]_vars

\* C1, amended: ok() returns True exactly when the websocket is open and the
\* last heartbeat of the target received since the last reset is at most 2.0 s
\* old; a heartbeat exactly 2.0 s old still counts.
C1_UpIffNotOlderThanTimeout ==
    [][call'.op = "ok" =>
          (Val(call'.ret) <=>
              /\ mav.websocket_is_open
              /\ mav.last_heartbeat_time # None
              /\ now - Val(mav.last_heartbeat_time) <= HEARTBEAT_TIMEOUT)]_vars

\* ok() has just returned True on a heartbeat exactly 2.0 s old.
C1_UpAtTimeout ==
    /\ call.op = "ok"
    /\ call.ret = <<TRUE>>
    /\ mav.last_heartbeat_time = Some(now - HEARTBEAT_TIMEOUT)

\* C2, as the specification states it: when a heartbeat of the target arrives
\* more than 2.0 s after the previous one, the first ok() after that gap
\* returns False.
C2_DownAfterAnyGap ==
    [][hb_gap /\ call'.op = "ok" => call'.ret = <<FALSE>>]_vars

\* C2, amended: an ok() made while the last heartbeat of the target is more
\* than 2.0 s old returns False and empties the parameters and the named
\* floats, and a get_param or get_named_float made right after it returns None.
C2_DownWhileHeartbeatOverdue ==
    [][/\ (call'.op = "ok" /\ heartbeat_timed_out(mav)) =>
              /\ call'.ret = <<FALSE>>
              /\ mav'.parameters = EmptyDict
              /\ mav'.named_floats = EmptyDict
       /\ (/\ call.op = "ok"
           /\ Logs("HEARTBEAT time out")
           /\ call'.op \in {"get_param", "get_named_float"}) =>
              call'.ret = None]_vars

\* ok() has just found the heartbeat overdue on an open websocket.
C2_TimeoutDetected ==
    /\ call.op = "ok"
    /\ call.ret = <<FALSE>>
    /\ Logs("HEARTBEAT time out")
    /\ mav.websocket_is_open
    /\ mav.parameters = EmptyDict

\* C3, as the specification states it: whenever the websocket goes from open
\* to closed, the parameters, the named floats and the templates have been
\* emptied and the heartbeat is marked as not received.
C3_ClosingClearsCaches ==
    [][(mav.websocket_is_open /\ ~mav'.websocket_is_open) => CachesCleared(mav')]_vars

\* C4: open_websocket stays in its loop; every step that ends a connection
\* attempt or a connection leaves the websocket marked closed and a fresh
\* 1.0 s sleep running; a connection is attempted only after that sleep; and
\* every sleep is followed by a connection attempt.
C4_SupervisorRetriesForever ==
    /\ [](pc \in {"sleep", "connect", "receive"})
    /\ [][(pc \in {"connect", "receive"} /\ pc' \notin {pc, "receive"}) =>
              /\ pc' = "sleep"
              /\ ~mav'.websocket_is_open
              /\ sleep_start' = now]_vars
    /\ [][(pc' = "connect" /\ pc # "connect") =>
              (pc = "sleep" /\ now - sleep_start >= SLEEP_DELAY)]_vars
    /\ ((pc = "sleep") ~> (pc = "connect"))

\* A connection is being attempted again after one was lost to an exception.
C4_RetryAfterLoss ==
    /\ pc = "connect"
    /\ mav.receiving_heartbeats
    /\ ~mav.websocket_is_open

\* A PARAM_REQUEST_READ for param_id by name, addressed to the target.
IsReadRequest(msg, param_id) ==
    /\ msg.message.type = "PARAM_REQUEST_READ"
    /\ msg.message.target_system = TARGET_SYSTEM
    /\ msg.message.target_component = TARGET_COMPONENT
    /\ msg.message.param_index = -1
    /\ msg.message.param_id = str_to_chars(param_id, PAD_LEN)

\* C5, as the specification states it: while ok() holds, get_param returns a
\* cached value and posts nothing; for a name that is not cached it posts
\* exactly one PARAM_REQUEST_READ by name and returns None.
C5_MissAlwaysRequests ==
    [][(call'.op = "get_param" /\ Up) =>
          LET param_id == call'.arg[1] IN
          IF Cached(param_id) # None
          THEN call'.ret = Cached(param_id) /\ sent' = <<>>
          ELSE /\ call'.ret = None
               /\ Len(sent') = 1
               /\ IsReadRequest(sent'[1], param_id)]_vars

\* C5, amended: while ok() holds, get_param returns a cached value and posts
\* nothing; for a name that is not cached it returns None and posts exactly
\* one PARAM_REQUEST_READ by name when the template is cached or can be fetched
\* and fewer than 10 requests were posted in the current 0.3 s window, and
\* nothing otherwise.
C5_MissRequestsWhenAllowed ==
    [][(call'.op = "get_param" /\ Up) =>
          LET param_id == call'.arg[1] IN
          IF Cached(param_id) # None
          THEN call'.ret = Cached(param_id) /\ sent' = <<>>
          ELSE /\ call'.ret = None
               /\ IF /\ "PARAM_REQUEST_READ" \in DOMAIN mav'.template_cache
                     /\ \/ burst_expired(mav)
                        \/ mav.param_request_burst_count < BURST_LIMIT
                  THEN Len(sent') = 1 /\ IsReadRequest(sent'[1], param_id)
                  ELSE sent' = <<>>]_vars

\* get_param has just posted the tenth request of a window.
C5_TenthRequestPosted ==
    /\ call.op = "get_param"
    /\ call.ret = None
    /\ Len(sent) = 1
    /\ mav.param_request_burst_count = BURST_LIMIT

\* C6, as the specification states it: of more than 10 get_param calls for
\* uncached names made at one instant, exactly 10 post a request, whatever
\* the window and the count were when the burst began.
C6_TenPerBurstAlways ==
    burst_misses > BURST_LIMIT => burst_sent = BURST_LIMIT

\* C6, amended: of the get_param calls for uncached names made at one
\* instant, the first of which found the window expired (more than 0.3 s
\* old), the first 10 post a request each and the others none.
C6_TenPerFreshBurst ==
    (burst_misses > 0 /\ mav.param_request_burst_start = now) =>
        burst_sent = Min(burst_misses, BURST_LIMIT)

\* A burst that opened a window went past its tenth request.
C6_FreshBurstThrottled ==
    /\ burst_misses > BURST_LIMIT
    /\ mav.param_request_burst_start = now
    /\ burst_sent = BURST_LIMIT
    /\ sent = <<>>

\* C7: whenever ok() does not hold, get_param and get_named_float return
\* None, post nothing and leave the burst window and the burst count as they
\* were.
C7_DownLookupsDoNothing ==
    [][(call'.op \in {"get_param", "get_named_float"} /\ ~Up) =>
          /\ call'.ret = None
          /\ sent' = <<>>
          /\ mav'.param_request_burst_start = mav.param_request_burst_start
          /\ mav'.param_request_burst_count = mav.param_request_burst_count]_vars

\* A lookup has just returned None on a closed websocket, with requests
\* counted in the window.
C7_LookupWhileDown ==
    /\ call.op \in {"get_param", "get_named_float"}
    /\ call.ret = None
    /\ ~mav.websocket_is_open
    /\ mav.param_request_burst_count > 0

\* A PARAM_SET of param_value for param_id, addressed to the target.
IsParamSet(msg, param_id, param_value) ==
    /\ msg.message.type = "PARAM_SET"
    /\ msg.message.target_system = TARGET_SYSTEM
    /\ msg.message.target_component = TARGET_COMPONENT
    /\ msg.message.param_id = str_to_chars(param_id, PAD_LEN)
    /\ msg.message.param_value = param_value

\* C8: set_param posts nothing when ok() does not hold; when it holds and the
\* PARAM_SET template is cached or can be fetched it posts exactly one
\* PARAM_SET and leaves the parameters as they were, so that get_param right
\* after it returns what it would have returned before.
C8_SetParamPostsOnceKeepsCache ==
    [][/\ call'.op = "set_param" =>
              /\ ~Up => sent' = <<>>
              /\ Up => /\ mav'.parameters = mav.parameters
                       /\ IF "PARAM_SET" \in DOMAIN mav'.template_cache
                          THEN /\ Len(sent') = 1
                               /\ IsParamSet(sent'[1], call'.arg[1], call'.arg[2])
                          ELSE sent' = <<>>
       /\ (/\ call.op = "set_param"
           /\ call'.op = "get_param"
           /\ call'.arg[1] = call.arg[1]
           /\ call.arg[1] \in DOMAIN mav.parameters
           /\ mav.parameters[call.arg[1]] # call.arg[2]) =>
              call'.ret \in {None, Some(mav.parameters[call.arg[1]])}]_vars

\* set_param has just posted a value that differs from the cached one.
C8_SetPostedCacheKept ==
    /\ call.op = "set_param"
    /\ Len(sent) = 1
    /\ call.arg[1] \in DOMAIN mav.parameters
    /\ mav.parameters[call.arg[1]] # call.arg[2]

\* A COMMAND_LONG MAV_CMD_SET_MESSAGE_INTERVAL for one registered pair.
IsSetInterval(msg, item) ==
    /\ msg.message.type = "COMMAND_LONG"
    /\ msg.message.command = [type |-> "MAV_CMD_SET_MESSAGE_INTERVAL"]
    /\ msg.message.param1 = item[1]
    /\ msg.message.param2 = 1000000 \div item[2]

\* C9, as the specification states it: with the COMMAND_LONG template at hand,
\* the first heartbeat of the target after every Down period (timeout found by
\* ok(), websocket closed, websocket lost to an exception) posts one
\* SET_MESSAGE_INTERVAL per registered pair, and any later heartbeat none.
C9_FirstHeartbeatResubscribes ==
    [][(/\ rx' = Some(Text(TRUE, MavMessage(Target, Heartbeat)))
        /\ "COMMAND_LONG" \in DOMAIN mav'.template_cache) =>
          IF was_down
          THEN /\ Len(sent') = Len(mav.msg_frequencies)
               /\ \A i \in 1..Len(sent') : IsSetInterval(sent'[i], mav.msg_frequencies[i])
          ELSE sent' = <<>>]_vars

\* A TEXT frame that _add_ws_text_msg parses into a MAVLink message.
Parsed(ws_msg) ==
    /\ ws_msg.type = "TEXT"
    /\ ~json_loads_raises(ws_msg)
    /\ ~lookup_raises(ws_msg.data)

\* C10: with a callback registered, the step that receives a frame parsed
\* into a message calls back exactly once, with that message, whoever sent
\* it; no other step calls back.  Frames are received one per step, so the
\* calls follow the order of arrival.
C10_OneCallbackPerParsedFrame ==
    [][cb' = IF rx' # None /\ Parsed(Val(rx')) /\ mav.msg_callback # None
             THEN <<Val(rx').data>>
             ELSE <<>>]_vars

\* The callback has just been given a message that is not from the target.
C10_ForeignMessageCalledBack ==
    /\ rx # None
    /\ Parsed(Val(rx))
    /\ <<Val(rx).data.header.system_id, Val(rx).data.header.component_id>> # Target
    /\ cb = <<Val(rx).data>>

\* A character array without its trailing nulls.
RECURSIVE Trimmed(_)
Trimmed(chars) ==
    IF chars # <<>> /\ chars[Len(chars)] = NUL
    THEN Trimmed(SubSeq(chars, 1, Len(chars) - 1))
    ELSE chars

\* The step received a message of this type from the target.
FromTarget(ws, msg_name) ==
    /\ ws # None
    /\ Parsed(Val(ws))
    /\ <<Val(ws).data.header.system_id, Val(ws).data.header.component_id>> = Target
    /\ Val(ws).data.message.type = msg_name

\* A PARAM_VALUE of the target sets the entry of its trimmed name to its
\* value and leaves the other entries alone; no other step changes the
\* parameters except by emptying them.
ParametersFollowFrames ==
    /\ FromTarget(rx', "PARAM_VALUE") =>
          LET name == Trimmed(Val(rx').data.message.param_id) IN
          /\ DOMAIN mav'.parameters = DOMAIN mav.parameters \cup {name}
          /\ mav'.parameters[name] = Val(rx').data.message.param_value
          /\ \A k \in DOMAIN mav.parameters \ {name} :
                mav'.parameters[k] = mav.parameters[k]
    /\ (~FromTarget(rx', "PARAM_VALUE") /\ mav'.parameters # mav.parameters) =>
          mav'.parameters = EmptyDict

\* C11, as the specification states it: on an open websocket with a heartbeat
\* of the target received since the last reset, ok() returns True and
\* get_param returns the value of the latest PARAM_VALUE of the target for
\* the name.
C11_LatestValueOnceHeartbeatSeen ==
    [][/\ ParametersFollowFrames
       /\ (mav.websocket_is_open /\ mav.receiving_heartbeats) =>
             /\ call'.op = "ok" => call'.ret = <<TRUE>>
             /\ (call'.op = "get_param" /\ call'.arg[1] \in DOMAIN mav.parameters) =>
                   call'.ret = Some(mav.parameters[call'.arg[1]])]_vars

\* C11, amended: on an open websocket with a heartbeat of the target received
\* since the last reset and at most 2.0 s old, ok() returns True and get_param
\* returns the value of the latest PARAM_VALUE of the target for the name.
C11_LatestValueWhileHeartbeatFresh ==
    [][/\ ParametersFollowFrames
       /\ (/\ mav.websocket_is_open
           /\ mav.receiving_heartbeats
           /\ now - Val(mav.last_heartbeat_time) <= HEARTBEAT_TIMEOUT) =>
             /\ call'.op = "ok" => call'.ret = <<TRUE>>
             /\ (call'.op = "get_param" /\ call'.arg[1] \in DOMAIN mav.parameters) =>
                   call'.ret = Some(mav.parameters[call'.arg[1]])]_vars

\* get_param has just returned the value a PARAM_VALUE delivered.
C11_ReportedValueReturned ==
    /\ call.op = "get_param"
    /\ call.ret = Some(2)
    /\ mav.parameters[call.arg[1]] = 2
    /\ mav.receiving_heartbeats

\* C12: every cached template is the schema as the helper served it, whatever
\* the callers of get_template have assigned to the objects it returned, and
\* get_template returns that schema.
C12_TemplatesNeverMutated ==
    /\ \A msg_name \in DOMAIN mav.template_cache :
          mav.template_cache[msg_name] = RemoteTemplate(msg_name)
    /\ (call.op = "get_template" /\ call.ret # None) =>
          Val(call.ret) = RemoteTemplate(call.arg[1])

\* A heartbeat has just posted two commands built on the COMMAND_LONG template,
\* and the cached template differs from both.
C12_CopiesMutatedCacheIntact ==
    /\ Len(sent) = 2
    /\ "COMMAND_LONG" \in DOMAIN mav.template_cache
    /\ sent[1] # mav.template_cache["COMMAND_LONG"]
    /\ sent[2] # mav.template_cache["COMMAND_LONG"]
    /\ sent[1] # sent[2]

\* The request for a template did not yield one.
FetchFailed(resp) == resp.exception \/ resp.status_code # 200 \/ resp.text = "None"

\* C13: get_template asks the helper only for a type that is not cached; a
\* failed request returns None and caches nothing, a successful one caches
\* what it returns; for a cached type it returns the cached template and asks
\* nothing.  No step asks the helper for a type that is cached.
C13_FetchOnlyWhenNotCached ==
    [][/\ call'.op = "get_template" =>
             LET msg_name == call'.arg[1]
                 resp == call'.arg[2]
             IN IF msg_name \in DOMAIN mav.template_cache
                THEN /\ got' = <<>>
                     /\ call'.ret = Some(mav.template_cache[msg_name])
                     /\ mav'.template_cache = mav.template_cache
                ELSE /\ got' = <<HelperPath(msg_name)>>
                     /\ IF FetchFailed(resp)
                        THEN /\ call'.ret = None
                             /\ mav'.template_cache = mav.template_cache
                        ELSE /\ call'.ret # None
                             /\ msg_name \in DOMAIN mav'.template_cache
                             /\ mav'.template_cache[msg_name] = Val(call'.ret)
       /\ \A i \in 1..Len(got') :
             got'[i][1] = HelperPath("")[1] =>
                got'[i][2] \notin DOMAIN mav.template_cache]_vars

\* get_template has just returned a cached template without asking the helper.
C13_ServedFromCache ==
    /\ call.op = "get_template"
    /\ call.ret # None
    /\ got = <<>>

\* C14, as the specification states it: a TEXT frame that does not parse
\* into a message with header.system_id, header.component_id and
\* message.type changes nothing of the client, posts nothing, calls nobody
\* back and leaves the dispatcher receiving.
C14_MalformedFrameDropped ==
    [][(rx' # None /\ Val(rx').type = "TEXT" /\ ~Parsed(Val(rx'))) =>
          /\ mav' = mav
          /\ sent' = <<>>
          /\ cb' = <<>>
          /\ pc' = "receive"]_vars

\* The step received a message that is not from the target.
FromOther(ws) ==
    /\ ws # None
    /\ Parsed(Val(ws))
    /\ <<Val(ws).data.header.system_id, Val(ws).data.header.component_id>> # Target

\* C15: a message whose system id or component id differs from the target's
\* changes neither the parameters, the named floats, the time of the last
\* heartbeat nor the heartbeat flag, and posts nothing; the parameters and
\* the named floats gain or change an entry only in a step that received a
\* PARAM_VALUE or a NAMED_VALUE_FLOAT of the target.
C15_OtherSourcesIgnored ==
    [][/\ FromOther(rx') =>
             /\ mav'.parameters = mav.parameters
             /\ mav'.named_floats = mav.named_floats
             /\ mav'.last_heartbeat_time = mav.last_heartbeat_time
             /\ mav'.receiving_heartbeats = mav.receiving_heartbeats
             /\ sent' = <<>>
       /\ mav'.parameters \notin {mav.parameters, EmptyDict} =>
             FromTarget(rx', "PARAM_VALUE")
       /\ mav'.named_floats \notin {mav.named_floats, EmptyDict} =>
             FromTarget(rx', "NAMED_VALUE_FLOAT")]_vars

\* A PARAM_VALUE of another component has just been received and the cached
\* value of the target's parameter is kept.
C15_OtherValueNotStored ==
    /\ FromOther(rx)
    /\ Val(rx).data.message = ParamValue(<<"A">>, 2)
    /\ <<"A">> \in DOMAIN mav.parameters
    /\ mav.parameters[<<"A">>] = 1

\* C16, as the specification states it: get_msg makes one request per call,
\* never raises, leaves the client as it was and posts nothing; it returns
\* None when the request fails, when mavlink2rest has no record, and when a
\* timeout is given that the age of the record exceeds, and the record
\* otherwise.
C16_GetMsgFetchesAndFilters ==
    [][call'.op = "get_msg" =>
          LET timeout == call'.arg[4]
              resp == call'.arg[5]
              absent == FetchFailed(resp) \/ resp.text = "not json"
              too_old ==
                  /\ timeout # None
                  /\ "status" \in DOMAIN resp.body
                  /\ now - resp.body.status.time.last_update.at > Val(timeout)
          IN /\ ~call'.raised
             /\ got' = <<MessagePath(call'.arg[1], call'.arg[2], call'.arg[3])>>
             /\ mav' = mav
             /\ sent' = <<>>
             /\ call'.ret = IF absent THEN None
                            ELSE IF too_old THEN None
                            ELSE Some(resp.body)]_vars

\* C17: send_msg posts its message exactly once and returns True exactly when
\* the answer has status 200; it does not raise and leaves the client as it
\* was.  No step posts the same message twice.
C17_OnePostNoRetry ==
    [][/\ call'.op = "send_msg" =>
             LET resp == call'.arg[3] IN
             /\ sent' = <<call'.arg[2]>>
             /\ call'.ret = <<(~resp.exception) /\ resp.status_code = 200>>
             /\ ~call'.raised
             /\ mav' = mav
       /\ \A i, j \in 1..Len(sent') : i # j => sent'[i] # sent'[j]]_vars

\* send_msg has just failed after one post.
C17_FailedPostReported ==
    /\ call.op = "send_msg"
    /\ call.ret = <<FALSE>>
    /\ Len(sent) = 1

C19_NothingRaises == ~call.raised

\* The encoding of a name is PAD_LEN elements, the name followed by nulls, and
\* decoding it gives the name back.
RoundTrips(name, chars, decoded) ==
    /\ Len(chars) = PAD_LEN
    /\ SubSeq(chars, 1, Len(name)) = name
    /\ \A i \in (Len(name) + 1)..PAD_LEN : chars[i] = NUL
    /\ decoded = name

HasNul(name) == \E i \in 1..Len(name) : name[i] = NUL

\* C20, as the specification states it: every name of 1 to 16 characters is
\* encoded as 16 elements, the name followed by null padding, and decoded
\* back to itself.
C20_EveryNameRoundTrips ==
    call.op = "round_trip" =>
        RoundTrips(call.arg[1], call.ret[1], call.ret[2])

\* C20, amended: every name of 1 to 16 characters that holds no null character
\* is encoded as 16 elements, the name followed by null padding, and decoded
\* back to itself.
C20_NullFreeNameRoundTrips ==
    (call.op = "round_trip" /\ ~HasNul(call.arg[1])) =>
        RoundTrips(call.arg[1], call.ret[1], call.ret[2])

\* A padded name with no null of its own came back from the round trip.
C20_PaddedNameCameBack ==
    /\ call.op = "round_trip"
    /\ ~HasNul(call.arg[1])
    /\ Len(call.arg[1]) < PAD_LEN
    /\ call.ret[1][PAD_LEN] = NUL
    /\ call.ret[2] = call.arg[1]

\* C21, as the specification states it: a request that mavlink2rest never
\* answers still ends, so the event loop's thread always comes back to the
\* receive loop and to the handlers.
C21_RequestsAlwaysEnd == (pc = "blocked") ~> (pc # "blocked")

\* The step is a get_param call that found ok() true and the name not cached.
Miss == call'.op = "get_param" /\ Up /\ Cached(call'.arg[1]) = None

\* The step leaves the burst window and the burst count alone, or is nothing
\* but time ageing the window.
ThrottleKept ==
    /\ mav'.param_request_burst_count = mav.param_request_burst_count
    /\ mav'.param_request_burst_start <= mav.param_request_burst_start

\* What a miss does to a throttle it reaches: the window is restarted if it
\* is more than 0.3 s old; then at 10 or more nothing is posted and nothing
\* changes, and otherwise one read request is posted and counted.
Throttles ==
    LET restart == now - mav.param_request_burst_start > BURST_WINDOW
        start == IF restart THEN now ELSE mav.param_request_burst_start
        count == IF restart THEN 0 ELSE mav.param_request_burst_count
    IN /\ mav'.param_request_burst_start = start
       /\ IF count >= BURST_LIMIT
          THEN /\ sent' = <<>>
               /\ mav'.param_request_burst_count = count
          ELSE /\ Len(sent') = 1
               /\ IsReadRequest(sent'[1], call'.arg[1])
               /\ mav'.param_request_burst_count = count + 1

\* C22, as the specification states it: the burst count stays within 0..10;
\* every miss restarts the window only if it is more than 0.3 s old, posts
\* nothing and changes nothing at 10 or more, and otherwise posts one read
\* request and counts it; no other step restarts the window or changes the
\* count.
C22_EveryMissThrottled ==
    /\ [](mav.param_request_burst_count \in 0..BURST_LIMIT)
    /\ [][IF Miss THEN Throttles ELSE ThrottleKept]_vars

\* C22, amended: as above for every miss that has the PARAM_REQUEST_READ
\* template, cached or fetched; a miss whose request for the template fails
\* posts nothing and leaves the window and the count as they were.
C22_MissWithTemplateThrottled ==
    /\ [](mav.param_request_burst_count \in 0..BURST_LIMIT)
    /\ [][IF Miss
          THEN IF "PARAM_REQUEST_READ" \in DOMAIN mav'.template_cache
               THEN Throttles
               ELSE sent' = <<>> /\ UNCHANGED <<mav.param_request_burst_start,
                                                mav.param_request_burst_count>>
          ELSE ThrottleKept]_vars

\* A miss has just been dropped at 10 requests in a window that is still open.
C22_MissDroppedInOpenWindow ==
    /\ call.op = "get_param"
    /\ call.ret = None
    /\ sent = <<>>
    /\ burst_misses > 0
    /\ "PARAM_REQUEST_READ" \in DOMAIN mav.template_cache
    /\ mav.param_request_burst_count = BURST_LIMIT
    /\ mav.param_request_burst_start < now

\* The step is nothing but time passing: no call returns, no frame is
\* received and the supervisor stays where it is.
TimePasses == call'.op = "none" /\ rx' = None /\ pc' = pc

\* C23: ok(), called by itself or through get_param, set_param or
\* get_named_float when the last heartbeat is more than 2.0 s old, empties the
\* parameters, the named floats and the templates and marks the heartbeat as
\* not received; time passing without such a call changes none of the three
\* caches nor the heartbeat flag, however old the heartbeat is.
C23_TimeoutDetectedOnlyByOk ==
    [][/\ (/\ call'.op \in {"ok", "get_param", "set_param", "get_named_float"}
           /\ mav.last_heartbeat_time # None
           /\ now - Val(mav.last_heartbeat_time) > HEARTBEAT_TIMEOUT)
          => (CachesCleared(mav') /\ mav'.last_heartbeat_time = None)
       /\ TimePasses =>
             UNCHANGED <<mav.parameters, mav.named_floats, mav.template_cache,
                         mav.receiving_heartbeats>>]_vars

\* get_param has just found the heartbeat overdue and cleared the caches, the
\* websocket being open.
C23_LookupDetectedTimeout ==
    /\ call.op = "get_param"
    /\ call.ret = None
    /\ Logs("HEARTBEAT time out")
    /\ mav.websocket_is_open
    /\ CachesCleared(mav)

\* _reset ran in the step.
ResetRan == \E i \in 1..Len(log') : log'[i] = "ArduSub is down, clearing caches"

C25_UpOnCurrentChannelOnly ==
    (call.op = "ok" /\ call.ret = <<TRUE>>) => (~was_down /\ stale = {})

====
